---- MODULE Spec2Model ----
(***************************************************************************)
(* Model of src/src/main.cpp: an SD-card MP3 player that streams to a      *)
(* Bluetooth sink and is driven by two buttons, by AVRCP commands from the *)
(* sink and by end-of-track detection in loop().                           *)
(*                                                                         *)
(* The program state is the three globals of main.cpp (playlist,           *)
(* currentTrackIndex, isPlaying), the state of the `player` object as far  *)
(* as main.cpp observes it, the sink connection flag, the position of      *)
(* loop() and the start-up phase.  Handlers are translated as functions    *)
(* on a record `m` of the mutable part; an action applies one handler.     *)
(* In Spec every handler runs atomically: the AVRCP callback is delivered  *)
(* between the statements of loop(), never inside one of its handlers.     *)
(***************************************************************************)
EXTENDS Integers, Sequences, FiniteSets, TLC

\* ------------------------------------------------------------------ bounds
MaxTracks == 3      \* most .mp3 files on the card
MaxBad    == 1      \* most files on the card that can never be loaded
NavDepth  == 3      \* longest sequence of user events searched by CanLoadOther

\* --------------------------------------------------------------- constants
NoTrack == 0        \* the player has no file open
Garbage == -1       \* what playlist[i] yields for i outside the vector

VARIABLES
  phase,              \* "boot", "halted" (while(1)), "running", "crashed"
  playlist,           \* std::vector<String> playlist
  currentTrackIndex,  \* int currentTrackIndex
  isPlaying,          \* bool isPlaying
  player,             \* AudioPlayer player: [loaded, ok, paused, done]
  connected,          \* a2dp_source.is_connected()
  loopPc,             \* position of loop(): "btnNext", "btnPrev", "copy"
  rootFailed,         \* buildPlaylist could not open the root directory
  mountFailed,        \* SD.begin failed
  badTracks,          \* files on the card that player.begin can never open
  last,               \* history: the last navigation event applied
  run,                \* history: the current row of equal navigation events
  main,               \* the loop task inside a handler: [pc, ev, tr, ok]
  cg                  \* history of the interleaved runs: [hand, badAcc, afterStop]

vars == <<phase, playlist, currentTrackIndex, isPlaying, player, connected,
          loopPc, rootFailed, mountFailed, badTracks, last, run, main, cg>>

\* ------------------------------------------------------- integer width
\* `currentTrackIndex >= playlist.size()`: the int is converted to size_t,
\* so a negative index compares as a huge value, above every size.
IndexAtLeastSize(i, n) == i < 0 \/ i >= n

\* `playlist.size() - 1` stored into an int: size 0 wraps to the all-ones
\* word, which reads back as -1.
SizeMinusOne(n) == n - 1

\* ------------------------------------------------------------- storage
\* A directory entry: its name, whether it is a directory, its extension.
Entry(n, d, e) == [name |-> n, dir |-> d, ext |-> e]

\* A card holding n MP3 files, extensions alternating .mp3 / .MP3; with
\* `junk` a directory named like an MP3 comes first and a ".Mp3" file and a
\* text file come last.
Listing(n, junk) ==
  LET off  == IF junk THEN 1 ELSE 0
      head == IF junk THEN <<Entry(1, TRUE, "mp3")>> ELSE <<>>
      body == [i \in 1..n |->
                 Entry(i + off, FALSE, IF i % 2 = 1 THEN "mp3" ELSE "MP3")]
      tail == IF junk
              THEN <<Entry(n + 2, FALSE, "Mp3"), Entry(n + 3, FALSE, "txt")>>
              ELSE <<>>
  IN  head \o body \o tail

Storages == { Listing(n, j) : n \in 0..MaxTracks, j \in BOOLEAN }

RECURSIVE buildPlaylist(_)
\* The names of the entries that are files ending in ".mp3" or ".MP3",
\* in enumeration order.
buildPlaylist(files) ==
  IF files = <<>> THEN <<>>
  ELSE LET f == Head(files)
       IN  IF ~f.dir /\ (f.ext = "mp3" \/ f.ext = "MP3")
           THEN <<f.name>> \o buildPlaylist(Tail(files))
           ELSE buildPlaylist(Tail(files))

Range(s) == { s[i] : i \in 1..Len(s) }

\* ------------------------------------------------------------- backend
\* One call on the player, as the history records it.
Cmd(op, arg, ok) == [op |-> op, arg |-> arg, ok |-> ok]

IdlePlayer == [loaded |-> NoTrack, ok |-> FALSE, paused |-> FALSE, done |-> FALSE]

\* player.stop()
player_stop(m) ==
  [m EXCEPT !.p = IdlePlayer,
            !.cmds = Append(@, Cmd("stop", NoTrack, TRUE))]

\* player.begin(SD.open(filename)); `ok` is what player.isOk() reports after.
player_begin(m, t, ok) ==
  [m EXCEPT !.p = [loaded |-> IF ok THEN t ELSE NoTrack, ok |-> ok,
                   paused |-> FALSE, done |-> FALSE],
            !.cmds = Append(@, Cmd("begin", t, ok))]

\* player.pause(b): takes effect only while a file is open.
player_pause(m, b) ==
  [m EXCEPT !.p.paused = IF m.p.loaded # NoTrack THEN b ELSE @,
            !.cmds = Append(@, Cmd(IF b THEN "pause" ELSE "resume", NoTrack, TRUE))]

\* The values player.copy() can return: an open, healthy stream either moves
\* one chunk (TRUE) or reaches its end (FALSE); a stream that has ended or
\* has failed moves nothing (FALSE).
CopyResults(p) == IF p.ok /\ ~p.done THEN {TRUE, FALSE} ELSE {FALSE}

\* Whether a load of track t succeeds: never for a file that cannot be
\* opened or decoded, otherwise as the card answers this time.
LoadOk(t, ok) == ok /\ t \notin badTracks

\* ------------------------------------------------------------ handlers
\* The mutable state a handler works on, with the history of what it did.
Machine ==
  [idx |-> currentTrackIndex, playing |-> isPlaying, p |-> player,
   cmds |-> <<>>, acc |-> <<>>, crashed |-> FALSE]

InRange(i) == 0 <= i /\ i < Len(playlist)

\* playFile that does not stop the player before the new load.
playFile_noStop(m, t, ok) ==
  LET m2 == player_begin(m, t, LoadOk(t, ok))
  IN  [m2 EXCEPT !.playing = m2.p.ok]

\* playFile that forgets to clear isPlaying when the load fails.
playFile_keepsPlaying(m, t, ok) ==
  LET m1 == IF m.playing THEN player_stop(m) ELSE m
      m2 == player_begin(m1, t, LoadOk(t, ok))
  IN  [m2 EXCEPT !.playing = m2.p.ok \/ m.playing]

playFile(m, t, ok) ==
  LET m1 == IF m.playing THEN player_stop(m) ELSE m
      m2 == player_begin(m1, t, LoadOk(t, ok))
  IN  [m2 EXCEPT !.playing = m2.p.ok]

\* playFile(playlist[currentTrackIndex].c_str()).  Indexing outside the
\* vector is undefined: the read faults (ub = "crash") or yields garbage.
playCurrent(m, ok, ub) ==
  LET m1 == [m EXCEPT !.acc = Append(@, m.idx)]
  IN  IF InRange(m.idx) THEN playFile(m1, playlist[m.idx + 1], ok)
      ELSE IF ub = "crash" THEN [m1 EXCEPT !.crashed = TRUE]
      ELSE playFile(m1, Garbage, ok)

\* playNextTrack that wraps one step late (`>` for `>=`).
playNextTrack_lateWrap(m, ok, ub) ==
  IF Len(playlist) = 0 \/ ~connected THEN m
  ELSE IF ~m.playing THEN playCurrent(m, ok, ub)
  ELSE LET i1 == m.idx + 1
           i2 == IF i1 > Len(playlist) THEN 0 ELSE i1
       IN  playCurrent([m EXCEPT !.idx = i2], ok, ub)

playNextTrack(m, ok, ub) ==
  IF Len(playlist) = 0 \/ ~connected THEN m
  ELSE IF ~m.playing THEN playCurrent(m, ok, ub)
  ELSE LET i1 == m.idx + 1
           i2 == IF IndexAtLeastSize(i1, Len(playlist)) THEN 0 ELSE i1
       IN  playCurrent([m EXCEPT !.idx = i2], ok, ub)

\* playPrevTrack without the isPlaying guard.
playPrevTrack_fromStopped(m, ok, ub) ==
  IF Len(playlist) = 0 \/ ~connected THEN m
  ELSE LET i1 == m.idx - 1
           i2 == IF i1 < 0 THEN SizeMinusOne(Len(playlist)) ELSE i1
       IN  playCurrent([m EXCEPT !.idx = i2], ok, ub)

\* playPrevTrack that saturates at the first track instead of wrapping.
playPrevTrack_saturating(m, ok, ub) ==
  IF Len(playlist) = 0 \/ ~m.playing \/ ~connected THEN m
  ELSE LET i1 == m.idx - 1
           i2 == IF i1 < 0 THEN 0 ELSE i1
       IN  playCurrent([m EXCEPT !.idx = i2], ok, ub)

playPrevTrack(m, ok, ub) ==
  IF Len(playlist) = 0 \/ ~m.playing \/ ~connected THEN m
  ELSE LET i1 == m.idx - 1
           i2 == IF i1 < 0 THEN SizeMinusOne(Len(playlist)) ELSE i1
       IN  playCurrent([m EXCEPT !.idx = i2], ok, ub)

\* stopPlayback that also rewinds the cursor to the first track.
stopPlayback_rewinds(m) ==
  IF m.playing THEN [player_stop(m) EXCEPT !.playing = FALSE, !.idx = 0] ELSE m

stopPlayback(m) ==
  IF m.playing THEN [player_stop(m) EXCEPT !.playing = FALSE] ELSE m

\* pausePlayback that pauses instead of toggling.
pausePlayback_alwaysPauses(m) ==
  IF m.playing THEN player_pause(m, TRUE) ELSE m

pausePlayback(m) ==
  IF m.playing THEN player_pause(m, ~m.p.paused) ELSE m

AvrcpCommands == {"STOPPED", "PLAYING", "PAUSED", "FWD_SEEK", "REV_SEEK", "OTHER"}

\* avrcp_callback whose PLAY command reloads the current track even while
\* playing.
avrcp_callback_reloads(m, c, ok, ub) ==
  CASE c = "STOPPED"  -> stopPlayback(m)
    [] c = "PLAYING"  -> playCurrent(m, ok, ub)
    [] c = "PAUSED"   -> pausePlayback(m)
    [] c = "FWD_SEEK" -> playNextTrack(m, ok, ub)
    [] c = "REV_SEEK" -> playPrevTrack(m, ok, ub)
    [] OTHER          -> m

avrcp_callback(m, c, ok, ub) ==
  CASE c = "STOPPED"  -> stopPlayback(m)
    [] c = "PLAYING"  -> IF ~m.playing THEN playCurrent(m, ok, ub)
                         ELSE player_pause(m, FALSE)
    [] c = "PAUSED"   -> pausePlayback(m)
    [] c = "FWD_SEEK" -> playNextTrack(m, ok, ub)
    [] c = "REV_SEEK" -> playPrevTrack(m, ok, ub)
    [] OTHER          -> m

\* The navigation event a remote command stands for.
RemoteEvent(c) ==
  CASE c = "STOPPED"  -> "Stop"
    [] c = "PLAYING"  -> "PlayOrResume"
    [] c = "PAUSED"   -> "PauseToggle"
    [] c = "FWD_SEEK" -> "Next"
    [] c = "REV_SEEK" -> "Prev"
    [] OTHER          -> "Other"

\* ------------------------------------------------------------- history
\* What a navigation event found when it was applied.
Pre ==
  [idx |-> currentTrackIndex, playing |-> isPlaying,
   paused |-> player.paused, loaded |-> player.loaded, conn |-> connected]

NoPre ==
  [idx |-> 0, playing |-> FALSE, paused |-> FALSE, loaded |-> NoTrack,
   conn |-> FALSE]

NoEvent == [ev |-> "none", src |-> "none", pre |-> NoPre, cmds |-> <<>>, acc |-> <<>>]

NoRun == [len |-> 0, pre |-> NoPre, guarded |-> FALSE, cmds |-> <<>>]

\* The longest row of event e that is followed: the catalog length for
\* Next, two for PauseToggle.
RunCap(e) ==
  IF e = "Next" THEN (IF Len(playlist) = 0 THEN 1 ELSE Len(playlist)) ELSE 2

\* The row of equal events after event e, applied now with result m2.
\* `guarded`: every event of the row found the machine playing or paused
\* and the sink connected.
RunAfter(e, m2) ==
  IF e \notin {"Next", "PauseToggle"} THEN NoRun
  ELSE IF last.ev = e /\ run.len >= 1 /\ run.len < RunCap(e)
  THEN [len |-> run.len + 1, pre |-> run.pre,
        guarded |-> run.guarded /\ isPlaying /\ connected,
        cmds |-> run.cmds \o m2.cmds]
  ELSE [len |-> 1, pre |-> Pre, guarded |-> isPlaying /\ connected,
        cmds |-> m2.cmds]

\* Event e from source src has run its handler, leaving m2.
Apply(e, src, m2) ==
  /\ last' = [ev |-> e, src |-> src, pre |-> Pre, cmds |-> m2.cmds, acc |-> m2.acc]
  /\ run' = RunAfter(e, m2)
  /\ IF m2.crashed
     THEN /\ phase' = "crashed"
          /\ UNCHANGED <<currentTrackIndex, isPlaying, player>>
     ELSE /\ phase' = phase
          /\ currentTrackIndex' = m2.idx
          /\ isPlaying' = m2.playing
          /\ player' = m2.p
  /\ UNCHANGED <<playlist, connected, rootFailed, mountFailed, badTracks>>

UBOutcomes == {"crash", "garbage"}

\* The loop task between handlers.
IdleTask == [pc |-> "idle", ev |-> "none", tr |-> NoTrack, ok |-> FALSE]

\* Nothing observed yet of the interleaved runs.
NoRace == [hand |-> "idle", badAcc |-> FALSE, afterStop |-> FALSE]

\* ------------------------------------------------------------- actions
Init ==
  /\ phase = "boot"
  /\ playlist = <<>>
  /\ currentTrackIndex = 0
  /\ isPlaying = FALSE
  /\ player = IdlePlayer
  /\ connected = FALSE
  /\ loopPc = "btnNext"
  /\ rootFailed = FALSE
  /\ mountFailed = FALSE
  /\ badTracks = {}
  /\ last = NoEvent
  /\ run = NoRun
  /\ main = IdleTask
  /\ cg = NoRace

\* setup() that reports the mount failure and carries on.
Setup_continuesAfterMountFailure ==
  /\ phase = "boot"
  /\ \E mountOk \in BOOLEAN, rootOk \in BOOLEAN, files \in Storages :
       LET pl == IF mountOk /\ rootOk THEN buildPlaylist(files) ELSE <<>>
       IN  /\ phase' = "running"
           /\ mountFailed' = ~mountOk
           /\ playlist' = pl
           /\ rootFailed' = (mountOk /\ ~rootOk)
           /\ \E bad \in SUBSET Range(pl) :
                /\ Cardinality(bad) <= MaxBad
                /\ badTracks' = bad
  /\ UNCHANGED <<currentTrackIndex, isPlaying, player, connected, loopPc, last, run,
                 main, cg>>

\* setup(): mount the card or halt; build the playlist; attach the buttons,
\* register the AVRCP callback and start Bluetooth.
Setup ==
  /\ phase = "boot"
  /\ \E mountOk \in BOOLEAN, rootOk \in BOOLEAN, files \in Storages :
       IF ~mountOk
       THEN /\ phase' = "halted"
            /\ mountFailed' = TRUE
            /\ UNCHANGED <<playlist, rootFailed, badTracks>>
       ELSE LET pl == IF rootOk THEN buildPlaylist(files) ELSE <<>>
            IN  /\ phase' = "running"
                /\ mountFailed' = FALSE
                /\ playlist' = pl
                /\ rootFailed' = ~rootOk
                /\ \E bad \in SUBSET Range(pl) :
                     /\ Cardinality(bad) <= MaxBad
                     /\ badTracks' = bad
  /\ UNCHANGED <<currentTrackIndex, isPlaying, player, connected, loopPc, last, run,
                 main, cg>>

\* loop(): buttonNext.tick() - a click calls playNextTrack, the start of a
\* long press calls stopPlayback.
ButtonNextTick ==
  /\ phase = "running" /\ loopPc = "btnNext"
  /\ UNCHANGED <<main, cg>>
  /\ loopPc' = "btnPrev"
  /\ \E b \in {"none", "click", "long"}, ok \in BOOLEAN, ub \in UBOutcomes :
       CASE b = "click" -> Apply("Next", "button", playNextTrack(Machine, ok, ub))
         [] b = "long"  -> Apply("Stop", "button", stopPlayback(Machine))
         [] OTHER       -> UNCHANGED <<phase, playlist, currentTrackIndex, isPlaying,
                                       player, connected, rootFailed, mountFailed, badTracks,
                                       last, run>>

\* loop(): buttonPrev.tick() - a click calls playPrevTrack.
ButtonPrevTick ==
  /\ phase = "running" /\ loopPc = "btnPrev"
  /\ UNCHANGED <<main, cg>>
  /\ loopPc' = "copy"
  /\ \E b \in {"none", "click"}, ok \in BOOLEAN, ub \in UBOutcomes :
       CASE b = "click" -> Apply("Prev", "button", playPrevTrack(Machine, ok, ub))
         [] OTHER       -> UNCHANGED <<phase, playlist, currentTrackIndex, isPlaying,
                                       player, connected, rootFailed, mountFailed, badTracks,
                                       last, run>>

\* loop(): while playing and not paused, copy one chunk; when copy() returns
\* false the song has finished and playNextTrack is called.
CopyStep ==
  /\ phase = "running" /\ loopPc = "copy"
  /\ UNCHANGED <<main, cg>>
  /\ loopPc' = "btnNext"
  /\ IF isPlaying /\ ~player.paused
     THEN \E r \in CopyResults(player), ok \in BOOLEAN, ub \in UBOutcomes :
            IF r
            THEN UNCHANGED <<phase, playlist, currentTrackIndex, isPlaying,
                             player, connected, rootFailed, mountFailed, badTracks, last, run>>
            ELSE Apply("TrackEnded", "loop",
                       playNextTrack([Machine EXCEPT !.p.done = @ \/ player.ok],
                                     ok, ub))
     ELSE UNCHANGED <<phase, playlist, currentTrackIndex, isPlaying,
                      player, connected, rootFailed, mountFailed, badTracks, last, run>>

\* The sink sends an AVRCP command: avrcp_callback runs.
Avrcp ==
  /\ phase = "running"
  /\ \E c \in AvrcpCommands, ok \in BOOLEAN, ub \in UBOutcomes :
       Apply(RemoteEvent(c), "remote", avrcp_callback(Machine, c, ok, ub))
  /\ UNCHANGED <<loopPc, main, cg>>

\* The sink connects or disconnects.
ConnChange ==
  /\ phase = "running"
  /\ connected' = ~connected
  /\ UNCHANGED <<phase, playlist, currentTrackIndex, isPlaying, player, loopPc,
                 rootFailed, mountFailed, badTracks, last, run, main, cg>>

\* The open stream fails: a decode or transport error.
Degrade ==
  /\ phase = "running"
  /\ player.loaded # NoTrack /\ player.ok
  /\ player' = [player EXCEPT !.ok = FALSE]
  /\ UNCHANGED <<phase, playlist, currentTrackIndex, isPlaying, connected, loopPc,
                 rootFailed, mountFailed, badTracks, last, run, main, cg>>

Next ==
  \/ Setup
  \/ ButtonNextTick
  \/ ButtonPrevTick
  \/ CopyStep
  \/ Avrcp
  \/ ConnChange
  \/ Degrade

Spec == Init /\ [][Next]_vars

\* loop() is called again and again: each of its three steps is taken.
FairSpec ==
  Spec /\ WF_vars(ButtonNextTick) /\ WF_vars(ButtonPrevTick) /\ WF_vars(CopyStep)

TypeOK ==
  /\ phase \in {"boot", "halted", "running", "crashed"}
  /\ isPlaying \in BOOLEAN
  /\ connected \in BOOLEAN
  /\ loopPc \in {"btnNext", "btnPrev", "copy"}

\* ------------------------------------------------- interleaved runs
(***************************************************************************)
(* avrcp_callback runs on the Bluetooth task, not inside loop(): it can    *)
(* run between any two statements of a handler the loop task is in.        *)
(* RaceSpec follows the loop task statement by statement (main.pc) and     *)
(* lets a whole callback run between two of its statements.  Callbacks     *)
(* that overlap the loop task statement by statement, and statements that  *)
(* overlap inside one read-modify-write, are further runs of the program   *)
(* that RaceSpec does not contain.                                          *)
(*                                                                         *)
(* main.pc: "idle" between handlers; C2 the copy() call; N1..N5            *)
(* playNextTrack; P1..P4 playPrevTrack; S1..S3 stopPlayback; X1 the        *)
(* playlist[currentTrackIndex] argument; F1..F5 playFile.                  *)
(***************************************************************************)
AfterLoopPc ==
  CASE loopPc = "btnNext" -> "btnPrev"
    [] loopPc = "btnPrev" -> "copy"
    [] OTHER              -> "btnNext"

\* The loop task moves to statement pc of the handler it is in.
Goto(pc) == main' = [main EXCEPT !.pc = pc] /\ UNCHANGED loopPc

\* The handler returns to loop(), which moves on.
Return == main' = IdleTask /\ loopPc' = AfterLoopPc

\* The loop task is inside a button handler or end-of-track handling.
InTransition == main.pc \notin {"idle", "C2"}

\* loop(): the two tick() calls and the test before copy().
StepLoop ==
  /\ phase = "running" /\ main.pc = "idle"
  /\ UNCHANGED <<phase, playlist, currentTrackIndex, isPlaying, player, connected,
                 rootFailed, mountFailed, badTracks, last, run>>
  /\ CASE loopPc = "btnNext" ->
            \E b \in {"none", "click", "long"} :
              CASE b = "click" ->
                     /\ main' = [IdleTask EXCEPT !.pc = "N1", !.ev = "Next"]
                     /\ cg' = [cg EXCEPT !.afterStop = FALSE, !.hand = "idle"]
                     /\ UNCHANGED loopPc
                [] b = "long" ->
                     /\ main' = [IdleTask EXCEPT !.pc = "S1", !.ev = "Stop"]
                     /\ cg' = [cg EXCEPT !.hand = "idle"]
                     /\ UNCHANGED loopPc
                [] OTHER -> Return /\ UNCHANGED cg
       [] loopPc = "btnPrev" ->
            \E b \in {"none", "click"} :
              IF b = "click"
              THEN /\ main' = [IdleTask EXCEPT !.pc = "P1", !.ev = "Prev"]
                   /\ cg' = [cg EXCEPT !.hand = "idle"]
                   /\ UNCHANGED loopPc
              ELSE Return /\ UNCHANGED cg
       [] OTHER ->
            /\ UNCHANGED cg
            /\ IF isPlaying /\ ~player.paused THEN Goto("C2") ELSE Return

\* loop(): `if (!player.copy()) playNextTrack();`
StepCopy ==
  /\ phase = "running" /\ main.pc = "C2"
  /\ UNCHANGED <<phase, playlist, currentTrackIndex, isPlaying, connected,
                 rootFailed, mountFailed, badTracks, last, run, cg>>
  /\ \E r \in CopyResults(player) :
       IF r THEN Return /\ UNCHANGED player
       ELSE /\ player' = [player EXCEPT !.done = @ \/ player.ok]
            /\ main' = [main EXCEPT !.pc = "N1", !.ev = "TrackEnded"]
            /\ UNCHANGED loopPc

\* playNextTrack(), statement by statement.
StepPlayNextTrack ==
  /\ phase = "running" /\ main.pc \in {"N1", "N2", "N3", "N4", "N5"}
  /\ UNCHANGED <<phase, playlist, isPlaying, player, connected,
                 rootFailed, mountFailed, badTracks, last, run, cg>>
  /\ CASE main.pc = "N1" ->
            /\ UNCHANGED currentTrackIndex
            /\ IF Len(playlist) = 0 \/ ~connected THEN Return ELSE Goto("N2")
       [] main.pc = "N2" ->
            /\ UNCHANGED currentTrackIndex
            /\ IF ~isPlaying THEN Goto("X1") ELSE Goto("N3")
       [] main.pc = "N3" ->
            /\ currentTrackIndex' = currentTrackIndex + 1
            /\ Goto("N4")
       [] main.pc = "N4" ->
            /\ UNCHANGED currentTrackIndex
            /\ IF IndexAtLeastSize(currentTrackIndex, Len(playlist))
               THEN Goto("N5") ELSE Goto("X1")
       [] OTHER ->
            /\ currentTrackIndex' = 0
            /\ Goto("X1")

\* playPrevTrack(), statement by statement.
StepPlayPrevTrack ==
  /\ phase = "running" /\ main.pc \in {"P1", "P2", "P3", "P4"}
  /\ UNCHANGED <<phase, playlist, isPlaying, player, connected,
                 rootFailed, mountFailed, badTracks, last, run, cg>>
  /\ CASE main.pc = "P1" ->
            /\ UNCHANGED currentTrackIndex
            /\ IF Len(playlist) = 0 \/ ~isPlaying \/ ~connected
               THEN Return ELSE Goto("P2")
       [] main.pc = "P2" ->
            /\ currentTrackIndex' = currentTrackIndex - 1
            /\ Goto("P3")
       [] main.pc = "P3" ->
            /\ UNCHANGED currentTrackIndex
            /\ IF currentTrackIndex < 0 THEN Goto("P4") ELSE Goto("X1")
       [] OTHER ->
            /\ currentTrackIndex' = SizeMinusOne(Len(playlist))
            /\ Goto("X1")

\* stopPlayback(), statement by statement.
StepStopPlayback ==
  /\ phase = "running" /\ main.pc \in {"S1", "S2", "S3"}
  /\ UNCHANGED <<phase, playlist, currentTrackIndex, connected,
                 rootFailed, mountFailed, badTracks, last, run>>
  /\ CASE main.pc = "S1" ->
            /\ UNCHANGED <<isPlaying, player, cg>>
            /\ IF isPlaying THEN Goto("S2") ELSE Return
       [] main.pc = "S2" ->
            /\ player' = player_stop(Machine).p
            /\ UNCHANGED <<isPlaying, cg>>
            /\ Goto("S3")
       [] OTHER ->
            /\ isPlaying' = FALSE
            /\ cg' = [cg EXCEPT !.afterStop = TRUE]
            /\ UNCHANGED player
            /\ Return

\* playFile(playlist[currentTrackIndex].c_str()), statement by statement.
StepPlayFile ==
  /\ phase = "running" /\ main.pc \in {"X1", "F1", "F2", "F3", "F4", "F5"}
  /\ UNCHANGED <<playlist, currentTrackIndex, connected,
                 rootFailed, mountFailed, badTracks, last, run>>
  /\ CASE main.pc = "X1" ->
            /\ UNCHANGED <<isPlaying, player, loopPc>>
            /\ cg' = [cg EXCEPT !.badAcc = @ \/ (Len(playlist) > 0
                                                 /\ ~InRange(currentTrackIndex))]
            /\ IF InRange(currentTrackIndex)
               THEN /\ main' = [main EXCEPT !.pc = "F1",
                                            !.tr = playlist[currentTrackIndex + 1]]
                    /\ UNCHANGED phase
               ELSE \E ub \in UBOutcomes :
                      IF ub = "crash"
                      THEN phase' = "crashed" /\ UNCHANGED main
                      ELSE /\ main' = [main EXCEPT !.pc = "F1", !.tr = Garbage]
                           /\ UNCHANGED phase
       [] main.pc = "F1" ->
            /\ UNCHANGED <<phase, isPlaying, player, cg>>
            /\ IF isPlaying THEN Goto("F2") ELSE Goto("F3")
       [] main.pc = "F2" ->
            /\ player' = player_stop(Machine).p
            /\ UNCHANGED <<phase, isPlaying, cg>>
            /\ Goto("F3")
       [] main.pc = "F3" ->
            /\ \E ok \in BOOLEAN :
                 player' = player_begin(Machine, main.tr, LoadOk(main.tr, ok)).p
            /\ cg' = [cg EXCEPT !.hand = IF @ = "stopped" THEN "loaded" ELSE @]
            /\ UNCHANGED <<phase, isPlaying>>
            /\ Goto("F4")
       [] main.pc = "F4" ->
            /\ main' = [main EXCEPT !.pc = "F5", !.ok = player.ok]
            /\ UNCHANGED <<phase, isPlaying, player, cg, loopPc>>
       [] OTHER ->
            /\ isPlaying' = main.ok
            /\ UNCHANGED <<phase, player, cg>>
            /\ Return

\* What the history of the interleaved runs holds after the remote has
\* delivered command c and avrcp_callback has left m2.
RaceAfter(c, m2) ==
  [hand |->
     CASE c = "STOPPED" -> IF isPlaying /\ Len(playlist) > 0 THEN "stopped" ELSE "idle"
       [] c = "PLAYING" -> IF cg.hand = "stopped"
                                /\ \A i \in 1..Len(m2.cmds) : m2.cmds[i].op # "begin"
                           THEN "merged" ELSE "idle"
       [] OTHER         -> "idle",
   badAcc |->
     cg.badAcc \/ (Len(playlist) > 0
                   /\ \E i \in 1..Len(m2.acc) : ~InRange(m2.acc[i])),
   afterStop |->
     CASE c = "STOPPED" /\ isPlaying         -> TRUE
       [] c \in {"PLAYING", "FWD_SEEK"}      -> FALSE
       [] OTHER                              -> cg.afterStop]

\* The sink sends an AVRCP command while the loop task is anywhere:
\* avrcp_callback runs to its end on the Bluetooth task.
RaceAvrcp ==
  /\ phase = "running"
  /\ \E c \in AvrcpCommands, ok \in BOOLEAN, ub \in UBOutcomes :
       LET m2 == avrcp_callback(Machine, c, ok, ub)
       IN  /\ cg' = RaceAfter(c, m2)
           /\ IF m2.crashed
              THEN /\ phase' = "crashed"
                   /\ UNCHANGED <<currentTrackIndex, isPlaying, player>>
              ELSE /\ phase' = phase
                   /\ currentTrackIndex' = m2.idx
                   /\ isPlaying' = m2.playing
                   /\ player' = m2.p
  /\ UNCHANGED <<playlist, connected, loopPc, rootFailed, mountFailed, badTracks,
                 last, run, main>>

RaceNext ==
  \/ Setup
  \/ StepLoop
  \/ StepCopy
  \/ StepPlayNextTrack
  \/ StepPlayPrevTrack
  \/ StepStopPlayback
  \/ StepPlayFile
  \/ RaceAvrcp
  \/ ConnChange
  \/ Degrade

RaceSpec == Init /\ [][RaceNext]_vars

\* ---------------------------------------------------------- vocabulary
N == Len(playlist)

Started == phase \in {"running", "crashed"}

\* The calls of operation op among cmds.
Calls(cmds, op) == { i \in 1..Len(cmds) : cmds[i].op = op }

\* Event e issued a load, for track t, that reported not-ok.
LoadFailed(e) == \E i \in Calls(e.cmds, "begin") : ~e.cmds[i].ok

Loaded(e, t) == \E i \in Calls(e.cmds, "begin") : e.cmds[i].arg = t

\* The track whose load event e saw fail.
FailedTrack(e) ==
  e.cmds[CHOOSE i \in Calls(e.cmds, "begin") : ~e.cmds[i].ok].arg

TrackAt(i) == playlist[i + 1]

\* The stream the player holds can deliver nothing more.
BackendDead == ~player.ok \/ player.done

\* ------------------------------------------------------------------ C1
\* C1: a remote PLAY applied while Stopped with the sink not connected
\* issues no load and leaves the machine Stopped (non-empty catalog).
C1_NoLoadWhenDisconnected ==
  (Started /\ N > 0 /\ last.ev = "PlayOrResume" /\ ~last.pre.playing /\ ~last.pre.conn)
    => (Calls(last.cmds, "begin") = {} /\ ~isPlaying)

\* ------------------------------------------------------------------ C2
\* C2: with an empty catalog every navigation event leaves state and cursor
\* unchanged, issues no backend command and never indexes the catalog.
C2_EmptyCatalogAbsorbs ==
  (Started /\ N = 0 /\ last.ev # "none")
    => /\ last.cmds = <<>>
       /\ last.acc = <<>>
       /\ phase = "running"
       /\ isPlaying = last.pre.playing
       /\ currentTrackIndex = last.pre.idx

\* ------------------------------------------------------------------ C3
\* C3: when copy() returns false while Playing, the cursor advances by one
\* modulo the catalog length and that track is loaded, connected or not.
C3_TrackEndedAdvances ==
  (Started /\ N > 0 /\ last.ev = "TrackEnded")
    => /\ currentTrackIndex = (last.pre.idx + 1) % N
       /\ Loaded(last, TrackAt(currentTrackIndex))

\* ------------------------------------------------------------------ C4
\* C4: whenever the machine is Playing on a backend that has failed or run
\* out, and the loop has seen copy() return false, the polling loop
\* eventually loads a track or stops the machine, unless a button or the
\* remote acts first.
C4_NoStuckPlaying ==
  (phase = "running" /\ N > 0 /\ isPlaying /\ ~player.paused /\ BackendDead
     /\ last.src = "loop")
    ~> (~isPlaying \/ ~BackendDead \/ last.src # "loop")

\* ------------------------------------------------------------------ C5
\* C5: after an event whose load reported not-ok the machine is Stopped,
\* whatever state the event found, and while no further event is applied
\* the streaming step of loop() touches neither the player nor the state.
C5_LoadFailureStops ==
  [][ /\ LoadFailed(last') => (~isPlaying' /\ player'.loaded = NoTrack)
      /\ (LoadFailed(last) /\ ~isPlaying /\ CopyStep)
           => (player' = player /\ isPlaying' = isPlaying /\ last' = last) ]_vars

\* A load failed in an event that found the machine Paused.
C5_Witness ==
  /\ LoadFailed(last) /\ last.pre.playing /\ last.pre.paused
  /\ ~isPlaying

\* ------------------------------------------------------------------ C6
UserEvents == {"Next", "Prev", "PlayOrResume", "PauseToggle", "Stop"}

\* The handler a button or the remote runs for navigation event e.
UserEvent(m, e, ok) ==
  CASE e = "Next"         -> playNextTrack(m, ok, "garbage")
    [] e = "Prev"         -> playPrevTrack(m, ok, "garbage")
    [] e = "PlayOrResume" -> avrcp_callback(m, "PLAYING", ok, "garbage")
    [] e = "PauseToggle"  -> pausePlayback(m)
    [] OTHER              -> stopPlayback(m)

RECURSIVE CanLoadOther(_, _, _)
\* Some sequence of at most d user events, with the card answering as well
\* as it can, leaves the player holding a track other than t.
CanLoadOther(m, t, d) ==
  /\ d > 0
  /\ \E e \in UserEvents, ok \in BOOLEAN :
       LET m2 == UserEvent(m, e, ok)
       IN  \/ (m2.playing /\ m2.p.loaded \notin {NoTrack, t})
           \/ CanLoadOther(m2, t, d - 1)

\* C6: from the Stopped state a load failure leaves, with the sink connected
\* and at least two tracks, user events can load a different track (every
\* track but the one that failed being loadable).
C6_CanMoveOnAfterFailure ==
  (phase = "running" /\ LoadFailed(last) /\ ~isPlaying /\ N >= 2
     /\ last.pre.conn /\ connected /\ badTracks \subseteq {FailedTrack(last)})
    => CanLoadOther(Machine, FailedTrack(last), NavDepth)

\* ------------------------------------------------------------------ C7
\* C7 as stated: N Next events in a row return the cursor to where the row
\* began, whatever state the row began in.
C7_WrapAnyRow ==
  (Started /\ N > 0 /\ last.ev = "Next" /\ run.len = N)
    => currentTrackIndex = run.pre.idx

\* C7: N Next events in a row, each applied while Playing or Paused with the
\* sink connected, return the cursor to where the row began; a Next event
\* applied while Stopped or with the sink disconnected leaves the cursor.
C7_WrapGuardedRow ==
  /\ (Started /\ N > 0 /\ last.ev = "Next" /\ run.len = N /\ run.guarded)
       => currentTrackIndex = run.pre.idx
  /\ (Started /\ N > 0 /\ last.ev = "Next"
        /\ (~last.pre.playing \/ ~last.pre.conn))
       => currentTrackIndex = last.pre.idx

\* A full guarded row of Next events over a catalog of at least two tracks.
C7_Witness ==
  /\ phase = "running" /\ N >= 2
  /\ last.ev = "Next" /\ run.len = N /\ run.guarded
  /\ Calls(run.cmds, "begin") # {}

\* ------------------------------------------------------------------ C8
\* C8: a Prev event applied with the cursor at 0, the machine Playing or
\* Paused and the sink connected, leaves the cursor at N-1 and issues the
\* load of the track at N-1.
C8_PrevWrapsToLast ==
  (Started /\ N > 0 /\ last.ev = "Prev" /\ last.pre.idx = 0
     /\ last.pre.playing /\ last.pre.conn)
    => /\ currentTrackIndex = N - 1
       /\ Loaded(last, TrackAt(N - 1))
       /\ last.acc = <<N - 1>>

\* Prev has wrapped from 0 over a catalog of at least two tracks.
C8_Witness ==
  /\ phase = "running" /\ N >= 2
  /\ last.ev = "Prev" /\ last.pre.idx = 0 /\ last.pre.playing /\ last.pre.conn
  /\ currentTrackIndex = N - 1

\* ------------------------------------------------------------------ C9
\* C9: PauseToggle while Playing pauses; a second one in a row resumes; the
\* two issue no load and no stop and leave the cursor alone.  PauseToggle
\* while Stopped changes nothing.
C9_ToggleTwice ==
  /\ (Started /\ last.ev = "PauseToggle" /\ run.len = 1
        /\ last.pre.playing /\ ~last.pre.paused)
       => (isPlaying /\ player.paused)
  /\ (Started /\ last.ev = "PauseToggle" /\ run.len = 2
        /\ run.pre.playing /\ ~run.pre.paused)
       => /\ isPlaying /\ ~player.paused
          /\ currentTrackIndex = run.pre.idx
          /\ player.loaded = run.pre.loaded
          /\ Calls(run.cmds, "begin") = {} /\ Calls(run.cmds, "stop") = {}
  /\ (Started /\ last.ev = "PauseToggle" /\ ~last.pre.playing)
       => /\ ~isPlaying /\ last.cmds = <<>>
          /\ currentTrackIndex = last.pre.idx
          /\ player.paused = last.pre.paused

\* Two PauseToggle events in a row, the first applied while Playing.
C9_Witness ==
  /\ phase = "running" /\ last.ev = "PauseToggle" /\ run.len = 2
  /\ run.pre.playing /\ ~run.pre.paused
  /\ isPlaying /\ ~player.paused

C11_NextWhilePaused ==
  (Started /\ N > 0 /\ last.ev = "Next" /\ last.pre.playing /\ last.pre.paused
     /\ last.pre.conn /\ ~LoadFailed(last))
    => /\ currentTrackIndex = (last.pre.idx + 1) % N
       /\ last.cmds = <<Cmd("stop", NoTrack, TRUE),
                        Cmd("begin", TrackAt(currentTrackIndex), TRUE)>>
       /\ isPlaying /\ ~player.paused
       /\ player.loaded = TrackAt(currentTrackIndex)

\* A Next event has moved a paused machine to another track.
C11_Witness ==
  /\ phase = "running" /\ N >= 2
  /\ last.ev = "Next" /\ last.pre.playing /\ last.pre.paused /\ last.pre.conn
  /\ ~LoadFailed(last) /\ isPlaying /\ ~player.paused
  /\ currentTrackIndex # last.pre.idx

\* ----------------------------------------------------------------- C12
\* C12: a Next event applied while Stopped (catalog not empty, sink
\* connected) loads the track at the cursor and leaves the cursor; a Prev
\* event applied while Stopped changes nothing and calls nothing.
C12_IdleNavigationAsymmetric ==
  /\ (Started /\ N > 0 /\ last.ev = "Next" /\ ~last.pre.playing /\ last.pre.conn)
       => /\ currentTrackIndex = last.pre.idx
          /\ Len(last.cmds) = 1 /\ last.cmds[1].op = "begin"
          /\ last.cmds[1].arg = TrackAt(last.pre.idx)
          /\ last.acc = <<last.pre.idx>>
          /\ isPlaying = last.cmds[1].ok
  /\ (Started /\ last.ev = "Prev" /\ ~last.pre.playing)
       => /\ currentTrackIndex = last.pre.idx
          /\ ~isPlaying
          /\ last.cmds = <<>> /\ last.acc = <<>>

\* A Prev event has been applied to a stopped machine that Next would start.
C12_Witness ==
  /\ phase = "running" /\ N >= 2
  /\ last.ev = "Prev" /\ ~last.pre.playing /\ last.pre.conn
  /\ ~isPlaying /\ last.cmds = <<>>

\* ----------------------------------------------------------------- C15
\* C15: when the root directory cannot be enumerated at startup the process
\* halts: it never runs, applies no navigation event and calls no backend.
C15_RootFailureHalts ==
  rootFailed => (phase = "halted" /\ last.ev = "none" /\ player = IdlePlayer)

\* ----------------------------------------------------------------- C16
\* C16: when the card cannot be mounted the process halts for good: no
\* catalog, no button or remote handler, no connection, no state change and
\* no backend call, ever.
C16_MountFailureHalts ==
  mountFailed
    => /\ phase = "halted"
       /\ playlist = <<>> /\ ~rootFailed
       /\ ~connected
       /\ ~isPlaying /\ currentTrackIndex = 0 /\ player = IdlePlayer
       /\ last = NoEvent /\ run = NoRun /\ loopPc = "btnNext"

\* The card could not be mounted and setup() has halted.
C16_Witness == mountFailed /\ phase = "halted"

\* ----------------------------------------------------------------- C18
\* C18: at every tick boundary the machine is Playing or Paused exactly when
\* the backend holds a live track: never playing on no track or on a stream
\* that has ended, never Stopped with a track still open.
C18_BackendConsistent ==
  (phase = "running" /\ N > 0 /\ loopPc = "btnNext")
    => /\ isPlaying => (player.loaded # NoTrack /\ ~player.done)
       /\ ~isPlaying => player.loaded = NoTrack

\* ----------------------------------------------------------------- C19
\* C19: the cursor changes only in a Next, Prev or TrackEnded event that
\* found the machine Playing or Paused with the sink connected; every other
\* step leaves it, and no step after startup changes the catalog.
C19_CursorFrame ==
  [][ /\ phase # "boot" => playlist' = playlist
      /\ currentTrackIndex' # currentTrackIndex
           => /\ last'.ev \in {"Next", "Prev", "TrackEnded"}
              /\ last'.pre = Pre
              /\ isPlaying /\ connected /\ N > 0 ]_vars

\* End-of-track handling has moved the cursor.
C19_Witness ==
  /\ phase = "running" /\ last.ev = "TrackEnded"
  /\ currentTrackIndex # last.pre.idx

\* ----------------------------------------------------------------- C13
\* C13: while a button handler or end-of-track handling of the loop task is
\* in progress, a remote command makes no backend call and changes neither
\* playback state nor cursor.
C13_NoOverlap ==
  [][ (InTransition /\ RaceAvrcp)
        => /\ player' = player
           /\ isPlaying' = isPlaying
           /\ currentTrackIndex' = currentTrackIndex ]_vars

\* ----------------------------------------------------------------- C14
\* C14: a remote Stop that stopped a playing track, followed by a remote
\* Play, is never left without a load after the stop (as long as every
\* catalog access so far used an index in range).
C14_StopThenPlayLoads == ~cg.badAcc => cg.hand # "merged"

\* ----------------------------------------------------------------- C17
\* C17: with a catalog that is not empty, every access to it uses an index
\* in [0, len), and between transitions the cursor is in [0, len).
C17_CursorInRange ==
  (Started /\ N > 0)
    => /\ ~cg.badAcc
       /\ main.pc = "idle" => InRange(currentTrackIndex)

\* ----------------------------------------------------------------- C20
\* C20: once a Stop event has stopped the machine, and until a Play or Next
\* event is applied, end-of-track handling loads no track.
C20_StopNotOverridden ==
  cg.afterStop => ~(main.ev = "TrackEnded" /\ player.loaded # NoTrack)

====
